---- MODULE Spec2Model ----
(***************************************************************************)
(* Model of PinPointDaemon (pin_point_daemon.py): run_pin_point_daemon()   *)
(* from the parsed command line on, the startup sequence of run(), and the *)
(* two coroutines telemetry_task() and listen_task() that asyncio.gather() *)
(* runs on one event loop.                                                 *)
(*                                                                         *)
(* Scheduling is asyncio's: one handle runs at a time, a coroutine keeps   *)
(* the thread until it awaits (or raises), handles run in the order they   *)
(* were scheduled (the ready queue is FIFO).  socket.accept() at line 160  *)
(* is a plain blocking call, not an await, so while listen_task is inside  *)
(* it nothing else of the daemon runs.  Time is abstracted: a pending      *)
(* asyncio.sleep may expire whenever the loop is idle.                     *)
(*                                                                         *)
(* Failure model: the driver calls (ConnectTo, Request) may raise, and a   *)
(* client may connect or close its end at any time.  Popen, the socket     *)
(* calls of __init__, the file write and log calls are taken to succeed.   *)
(*                                                                         *)
(* Strings are sequences of pieces: the delimiter "\t" or a tab-free       *)
(* piece of text.                                                          *)
(***************************************************************************)
EXTENDS Integers, Sequences, FiniteSets, TLC

\* ------------------------------------------------------------------ bounds
\* clients that ever try to connect
MaxClients == 2
\* Temperatures requests the driver answers or fails
MaxPolls == 2
\* readings in one Temperatures response
MaxFields == 2

\* socket.listen(1): pending connections the listener queues
Backlog == 1

Clients == 1..MaxClients

\* ------------------------------------------------------- string helpers
TAB == "\t"

\* str.split(d): the fields between the delimiters ("" gives [""])
RECURSIVE Split(_, _)
Split(s, d) ==
    IF \A i \in 1..Len(s) : s[i] # d
    THEN <<s>>
    ELSE LET k == CHOOSE i \in 1..Len(s) :
                      s[i] = d /\ \A j \in 1..(i - 1) : s[j] # d
         IN  <<SubSeq(s, 1, k - 1)>> \o Split(SubSeq(s, k + 1, Len(s)), d)

\* mutant of DropLast: the list is used as split() returned it
KeepAll(l) == l

\* list[:-1]
DropLast(l) == SubSeq(l, 1, Len(l) - 1)

\* d.join(fields)
RECURSIVE Join(_, _)
Join(fields, d) ==
    IF fields = <<>> THEN <<>>
    ELSE IF Len(fields) = 1 THEN fields[1]
    ELSE fields[1] \o <<d>> \o Join(Tail(fields), d)

\* Request("Temperatures").split("\t")[:-1]
ParseTemperatures(reply) == DropLast(Split(reply, TAB))

\* ",".join(temperatures) + "\n"
FileLine(temperatures) == Join(temperatures, ",") \o <<"\n">>

\* bytes(",".join(temperatures) + "\r\n", "ascii")
WireLine(temperatures) == Join(temperatures, ",") \o <<"\r\n">>

\* ------------------------------------------------------ driver's replies
\* a driver call returns a string or raises dde.error
Reply(s) == [ok |-> TRUE, text |-> s]
DdeError == [ok |-> FALSE, text |-> <<>>]

\* the readings the driver may have for one Temperatures request
Readings == { <<"10.1">>, <<"20.2">> }
FieldLists == UNION { [1..n -> Readings] : n \in 0..MaxFields }

\* the forms of the driver's response: every reading followed by a tab,
\* the same closed by a newline, or tabs between the readings only
Forms == { "tabs", "tabs_newline", "unterminated" }

\* each field followed by the delimiter
RECURSIVE Terminated(_, _)
Terminated(fields, d) ==
    IF fields = <<>> THEN <<>>
    ELSE fields[1] \o <<d>> \o Terminated(Tail(fields), d)

\* what Request("Temperatures") returns for these readings
Response(fields, form) ==
    IF form = "unterminated" THEN Join(fields, TAB)
    ELSE IF form = "tabs_newline" THEN Terminated(fields, TAB) \o <<"\n">>
    ELSE Terminated(fields, TAB)

\* what Request("Topics") may return
TopicsReplies ==
    { Reply(<<"GE01", TAB, "GE02", "\n">>),
      Reply(<<"GE02", TAB, "GE01", TAB>>) }

\* what float(Request("Average Scan Interval")) may give, in seconds
ScanReplies == { [ok |-> TRUE, value |-> 1], [ok |-> TRUE, value |-> 2] }
ScanError == [ok |-> FALSE, value |-> 0]

\* self.scan_time before run() sets it
NoScanTime == 0

\* self._pin_point's topic before a ConnectTo succeeded
NoSession == [connected |-> FALSE, topic |-> <<>>]
Session(t) == [connected |-> TRUE, topic |-> t]

\* ----------------------------------------------------- the client slot
\* self._connection: the value __init__ leaves (None | socket.socket, the
\* union type object), None, or an accepted socket
UnionType == [kind |-> "UnionType", id |-> 0]
\* the attribute before __init__ has run: there is no daemon object
Unset == [kind |-> "unset", id |-> 0]
NoneValue == [kind |-> "None", id |-> 0]
Socket(c) == [kind |-> "socket", id |-> c]

\* ------------------------------------------------------ the exit status
\* the process has not exited
NoExitCode == -1
\* sys.exit(1), and the status of an interpreter ended by an exception
ExitFailure == 1

VARIABLES
    arg_discover,     \* --discover: "absent" or the string given
    arg_topic,        \* args.ppmonitor_topic: "None" or the string given
    stdout,           \* what print() wrote
    listening,        \* self.socket is bound and listening
    exit_code,        \* NoExitCode or the exit status of the process
    ppmonitor_exe,    \* "" or the path of the driver executable
    ppmonitor_topic,  \* "None" or the configured topic (a string)
    save_file,        \* "None" or "file"
    state,            \* where run() is
    pin_point,    \* NoSession or the topic _pin_point is connected to
    scan_time,        \* NoScanTime or the scan interval
    launches,         \* driver processes started
    exit_error,       \* "None" or the exception that ended run()
    connection,       \* self._connection
    client_address,   \* self._client_address
    pc_tel,           \* where telemetry_task is
    pc_lis,           \* where listen_task is
    temperatures,     \* telemetry_task's local: the sample of this cycle
    tel_exc,          \* "None" or the exception that ended telemetry_task
    tel_sleep,        \* NoScanTime or the delay of telemetry_task's last sleep
    ready,            \* the event loop's ready queue
    timers,           \* tasks inside asyncio.sleep
    polls,            \* Temperatures requests made
    file,             \* lines written to save_file
    backlog,          \* clients connected to the listener, not yet accepted
    sock,             \* per client: the state of its connection
    sent,             \* history: the lines sendall delivered, and to whom
    samples,          \* history: the samples telemetry_task parsed
    replies,          \* history: the readings behind each parsed response
    topics_log,       \* history: the replies to Request("Topics")
    log               \* history: what the daemon did, in order

vars == << arg_discover, arg_topic, stdout, listening, exit_code,
           ppmonitor_exe, ppmonitor_topic, save_file, state, pin_point,
           scan_time, launches, exit_error, connection, client_address,
           pc_tel, pc_lis, temperatures, tel_exc, tel_sleep, ready, timers,
           polls,
           file, backlog, sock, sent, samples, replies, topics_log, log >>

\* what the command line and the constructor fix, and run() never changes
config == << arg_discover, arg_topic, stdout, listening,
             ppmonitor_exe, ppmonitor_topic, save_file >>
runVars == << state, pin_point, scan_time, launches, exit_error, exit_code,
             topics_log >>
slotVars == << connection, client_address >>
telVars == << pc_tel, temperatures, tel_exc, tel_sleep, polls, file, samples,
             replies >>
netVars == << backlog, sock, sent >>

Event(e, i) == [ev |-> e, id |-> i]
Logged(e) == { i \in 1..Len(log) : log[i].ev = e }
Count(e) == Cardinality(Logged(e))

\* ------------------------------------------------------------------ Init
\* the process after parse_args(): the command line is known, no daemon
\* object exists.  ppmonitor_exe and save_file are args.ppmonitor_exe and
\* args.save, which the constructor stores as they are.
Init ==
    /\ arg_discover \in {"absent", "", "False", "True"}
    /\ arg_topic \in {"None", "GE01.ppc"}
    /\ stdout = <<>>
    /\ listening = FALSE
    /\ exit_code = NoExitCode
    /\ ppmonitor_exe \in {"", "PPMonitor.exe"}
    /\ ppmonitor_topic = "None"
    /\ save_file \in {"None", "file"}
    /\ state = "STARTING"
    /\ pin_point = NoSession
    /\ scan_time = NoScanTime
    /\ launches = 0
    /\ exit_error = "None"
    /\ connection = Unset
    /\ client_address = Unset
    /\ pc_tel = "none"
    /\ pc_lis = "none"
    /\ temperatures = <<>>
    /\ tel_exc = "None"
    /\ tel_sleep = NoScanTime
    /\ ready = <<>>
    /\ timers = {}
    /\ polls = 0
    /\ file = <<>>
    /\ backlog = <<>>
    /\ sock = [c \in Clients |-> "idle"]
    /\ sent = <<>>
    /\ samples = <<>>
    /\ replies = <<>>
    /\ topics_log = <<>>
    /\ log = <<>>

\* -------------------------------------------------- run_pin_point_daemon()
\* type=bool: argparse calls bool() on the string of the command line
ParseBool(s) == s # ""

\* args.discover: default=False when the option is absent
ArgDiscover(a) == IF a = "absent" THEN FALSE ELSE ParseBool(a)

\* lines 214, 217: discovery is off and no topic was given
MissingTopic(disc, topic) == ~disc /\ topic = "None"

\* lines 214-223: the topic handed to the constructor
TopicFor(disc, topic) == IF disc THEN "None" ELSE topic

\* mutant of ListenerAfterInit: the constructor leaves the socket unbound
ListenerNotBound == FALSE

\* lines 74-75: bind() and listen(1) in __init__
ListenerAfterInit == TRUE

\* lines 214-231: validate the command line, then either print the error
\* and sys.exit(1), or construct the daemon (__init__ binds the socket
\* and listens) and enter run()
RunPinPointDaemon ==
    /\ state = "STARTING"
    /\ IF MissingTopic(ArgDiscover(arg_discover), arg_topic)
       THEN /\ stdout' = Append(stdout, "argument is required")
            /\ exit_code' = ExitFailure
            /\ state' = "EXITED"
            /\ UNCHANGED << ppmonitor_topic, listening, slotVars >>
       ELSE /\ ppmonitor_topic' = TopicFor(ArgDiscover(arg_discover), arg_topic)
            /\ listening' = ListenerAfterInit
            /\ connection' = UnionType
            /\ client_address' = UnionType
            /\ state' = "CONNECTING"
            /\ UNCHANGED << stdout, exit_code >>
    /\ UNCHANGED << arg_discover, arg_topic, ppmonitor_exe, save_file,
                    pin_point, scan_time, launches, exit_error, topics_log,
                    telVars, pc_lis, ready, timers, netVars, log >>

\* ------------------------------------------------------------- connect()
\* connect(): the topic it asks for, whether it raised, and whether it
\* made the Topics request.  sysOk: the ConnectTo("PPMonitor", "System")
\* call; topics: the reply to Request("Topics"); convOk: the ConnectTo of
\* the topic.
Connect(topic, sysOk, topics, convOk) ==
    IF topic = "None"
    THEN IF ~sysOk \/ ~topics.ok
         THEN [ok |-> FALSE, system |-> <<>>, exc |-> "dde.error",
               asked |-> sysOk]
         ELSE LET system == Split(topics.text, TAB)[1]
              IN  IF convOk
                  THEN [ok |-> TRUE, system |-> system, exc |-> "None",
                        asked |-> TRUE]
                  ELSE [ok |-> FALSE, system |-> system, exc |-> "RuntimeError",
                        asked |-> TRUE]
    ELSE IF convOk
         THEN [ok |-> TRUE, system |-> <<topic>>, exc |-> "None",
               asked |-> FALSE]
         ELSE [ok |-> FALSE, system |-> <<topic>>, exc |-> "RuntimeError",
               asked |-> FALSE]

\* ----------------------------------------------------------------- run()
\* mutant of LauncherConfigured: the empty path is not checked
LauncherAlways(exe) == TRUE

\* line 113: a launcher path is configured
LauncherConfigured(exe) == exe # ""

\* mutant of AfterConnect: the retry is inside the try/except too, so a
\* failed retry launches the driver again
AfterConnectRetrying(at, ok, exe) ==
    IF ok THEN "SCANNING"
    ELSE IF LauncherConfigured(exe) THEN "LAUNCHING"
    ELSE "STOPPED"

\* where run() goes after a connect() made at `at`: the first call is
\* inside try/except, the second is not
AfterConnect(at, ok, exe) ==
    IF ok THEN "SCANNING"
    ELSE IF at = "CONNECTING" /\ LauncherConfigured(exe) THEN "LAUNCHING"
    ELSE "STOPPED"

RunConnect ==
    /\ state \in {"CONNECTING", "RETRY_CONNECTING"}
    /\ \E sysOk \in BOOLEAN, convOk \in BOOLEAN,
          topics \in TopicsReplies \cup {DdeError} :
         LET r == Connect(ppmonitor_topic, sysOk, topics, convOk)
             next == AfterConnect(state, r.ok, ppmonitor_exe)
         IN  /\ state' = next
             /\ pin_point' = IF r.ok THEN Session(r.system) ELSE pin_point
             /\ launches' = IF next = "LAUNCHING" THEN launches + 1 ELSE launches
             /\ exit_error' = IF next = "STOPPED"
                              THEN (IF state = "CONNECTING" THEN "RuntimeError" ELSE r.exc)
                              ELSE exit_error
             /\ exit_code' = IF next = "STOPPED" THEN ExitFailure ELSE exit_code
             /\ topics_log' = IF r.asked THEN Append(topics_log, topics)
                              ELSE topics_log
             /\ log' = log \o <<Event(IF r.ok THEN "connect_ok" ELSE "connect_fail", 0)>>
                           \o (IF next = "LAUNCHING" THEN <<Event("launch", 0)>> ELSE <<>>)
    /\ UNCHANGED << config, scan_time, slotVars, telVars, pc_lis, ready, timers, netVars >>

\* asyncio.sleep(5) returns
GraceElapsed ==
    /\ state = "LAUNCHING"
    /\ state' = "RETRY_CONNECTING"
    /\ log' = Append(log, Event("grace", 0))
    /\ UNCHANGED << config, pin_point, scan_time, launches, exit_error,
                    exit_code, topics_log, slotVars, telVars, pc_lis, ready,
                    timers, netVars >>

\* mutant of StoredScanTime: the value read is not kept
ScanTimeNotStored(reply) == NoScanTime

\* line 125: self.scan_time = float(...)
StoredScanTime(reply) == reply.value

\* lines 125-127: read the scan interval, then gather() creates the two
\* tasks, telemetry_task first, and run() waits for them
RunScanInterval ==
    /\ state = "SCANNING"
    /\ \E reply \in ScanReplies \cup {ScanError} :
         IF ~reply.ok
         THEN /\ state' = "STOPPED"
              /\ exit_error' = "dde.error"
              /\ exit_code' = ExitFailure
              /\ log' = Append(log, Event("scan_fail", 0))
              /\ UNCHANGED << scan_time, pc_tel, pc_lis, ready >>
         ELSE /\ scan_time' = StoredScanTime(reply)
              /\ state' = "RUNNING"
              /\ pc_tel' = "scheduled"
              /\ pc_lis' = "scheduled"
              /\ ready' = <<"tel", "lis">>
              /\ log' = log \o <<Event("scan_ok", reply.value), Event("gather", 0)>>
              /\ UNCHANGED << exit_error, exit_code >>
    /\ UNCHANGED << config, pin_point, launches, topics_log, slotVars,
                    temperatures, tel_exc, tel_sleep, polls, file, samples,
                    replies, timers, netVars >>

\* ------------------------------------------------------ the event loop
\* no coroutine holds the thread: run() waits in gather, telemetry_task is
\* not inside a cycle, listen_task is not inside accept()
LoopIdle ==
    /\ state = "RUNNING"
    /\ pc_tel \notin {"save", "send"}
    /\ pc_lis # "accept"

NextHandle(h) == LoopIdle /\ ready # <<>> /\ Head(ready) = h

\* an asyncio.sleep of a task expires: its next step is scheduled
TimerFire ==
    /\ LoopIdle
    /\ \E t \in timers :
         /\ timers' = timers \ {t}
         /\ ready' = Append(ready, t)
    /\ UNCHANGED << config, runVars, slotVars, telVars, pc_lis, netVars, log >>

\* ------------------------------------------------------ telemetry_task()
\* mutant of AfterPoll: the send comes straight after the request
AfterPollSends == "send"

\* lines 133-135: what follows the request in a cycle is the file sink
AfterPoll == "save"

\* line 133: the Temperatures request, at the head of the while loop
TelemetryPoll ==
    /\ NextHandle("tel")
    /\ pc_tel \in {"scheduled", "sleep"}
    /\ polls < MaxPolls
    /\ polls' = polls + 1
    /\ \E fields \in FieldLists, form \in Forms, ok \in BOOLEAN :
         LET reply == IF ok THEN Reply(Response(fields, form)) ELSE DdeError
         IN
         IF reply.ok
         THEN /\ temperatures' = ParseTemperatures(reply.text)
              /\ samples' = Append(samples, ParseTemperatures(reply.text))
              /\ replies' = Append(replies, [fields |-> fields, form |-> form])
              /\ pc_tel' = AfterPoll
              /\ ready' = Tail(ready)
              /\ log' = Append(log, Event("poll", polls + 1))
              /\ UNCHANGED tel_exc
         ELSE /\ pc_tel' = "failed"
              /\ tel_exc' = "dde.error"
              /\ ready' = Append(Tail(ready), "gather_cb")
              /\ log' = Append(log, Event("poll_fail", polls + 1))
              /\ UNCHANGED << temperatures, samples, replies >>
    /\ UNCHANGED << config, runVars, slotVars, tel_sleep, file, pc_lis, timers,
                    netVars >>

\* mutant of SaveConfigured: the sample is never written
SaveNever(f) == FALSE

\* line 135
SaveConfigured(f) == f # "None"

\* lines 135-137: the file write and flush
TelemetrySave ==
    /\ pc_tel = "save"
    /\ pc_tel' = "send"
    /\ IF SaveConfigured(save_file)
       THEN /\ file' = Append(file, FileLine(temperatures))
            /\ log' = Append(log, Event("append", polls))
       ELSE UNCHANGED << file, log >>
    /\ UNCHANGED << config, runVars, slotVars, temperatures, tel_exc,
                    tel_sleep, polls, samples, replies, pc_lis, ready, timers,
                    netVars >>

\* line 139
HasConnection(conn) == conn # NoneValue

\* what sendall does on the object in the slot: the union type object has
\* no sendall; an open socket takes the data; after the peer closed, the
\* data may still be taken or the call raises
SendOutcomes(conn, sk) ==
    IF conn.kind # "socket" THEN {"AttributeError"}
    ELSE IF sk[conn.id] = "open" THEN {"ok"}
    ELSE {"ok", "ConnectionAbortedError", "ConnectionResetError"}

\* line 144: except ConnectionAbortedError
Caught(exc) == exc = "ConnectionAbortedError"

\* mutant of SlotAfterSend: any exception of the send empties the slot
SlotClearedOnAnyError(conn, out) == IF out # "ok" THEN NoneValue ELSE conn

\* lines 144-151: the slot after the send: emptied by the except clause
SlotAfterSend(conn, out) == IF Caught(out) THEN NoneValue ELSE conn

\* lines 139-153: the send to the client, then the sleep
TelemetrySend ==
    /\ pc_tel = "send"
    /\ IF ~HasConnection(connection)
       THEN /\ pc_tel' = "sleep"
            /\ tel_sleep' = scan_time
            /\ timers' = timers \cup {"tel"}
            /\ UNCHANGED << connection, tel_exc, ready, sock, sent, log >>
       ELSE \E out \in SendOutcomes(connection, sock) :
              /\ log' = Append(log, Event("send", connection.id))
              /\ connection' = SlotAfterSend(connection, out)
              /\ IF out = "ok"
                 THEN /\ sent' = Append(sent, [to |-> connection.id,
                                               sample |-> Len(samples),
                                               line |-> WireLine(temperatures)])
                      /\ pc_tel' = "sleep"
                      /\ tel_sleep' = scan_time
                      /\ timers' = timers \cup {"tel"}
                      /\ UNCHANGED << tel_exc, ready, sock >>
                 ELSE IF Caught(out)
                 THEN /\ sock' = [sock EXCEPT ![connection.id] = "closed"]
                      /\ pc_tel' = "sleep"
                      /\ tel_sleep' = scan_time
                      /\ timers' = timers \cup {"tel"}
                      /\ UNCHANGED << tel_exc, ready, sent >>
                 ELSE /\ pc_tel' = "failed"
                      /\ tel_exc' = out
                      /\ ready' = Append(ready, "gather_cb")
                      /\ UNCHANGED << tel_sleep, timers, sock, sent >>
    /\ UNCHANGED << config, runVars, client_address, temperatures, polls, file,
                    samples, replies, pc_lis, backlog >>

\* --------------------------------------------------------- listen_task()
\* mutant of ListenKeepsWaiting: listen_task goes back to accept() at once
ListenNeverWaits(conn) == FALSE

\* line 164: while self._connection is not None
ListenKeepsWaiting(conn) == conn # NoneValue

\* a step of listen_task: its first one, or the one after asyncio.sleep(1).
\* It sleeps again while the slot is not None, else it enters accept().
ListenResume ==
    /\ NextHandle("lis")
    /\ pc_lis \in {"scheduled", "sleep"}
    /\ ready' = Tail(ready)
    /\ IF pc_lis = "sleep" /\ ListenKeepsWaiting(connection)
       THEN /\ timers' = timers \cup {"lis"}
            /\ UNCHANGED pc_lis
       ELSE /\ pc_lis' = "accept"
            /\ UNCHANGED timers
    /\ UNCHANGED << config, runVars, slotVars, telVars, netVars, log >>

\* mutant of SentOnAccept: a new client is greeted with an empty line
GreetingOnAccept(c) == << [to |-> c, sample |-> 0, line |-> <<"\r\n">>] >>

\* lines 160-165: what listen_task writes to a connection it accepted
SentOnAccept(c) == <<>>

\* line 160: accept() returns the first pending connection, and the slot
\* is overwritten; then the inner while loop of line 164
AcceptReturn ==
    /\ pc_lis = "accept"
    /\ backlog # <<>>
    /\ LET c == Head(backlog)
       IN  /\ connection' = Socket(c)
           /\ client_address' = Socket(c)
           /\ sock' = [sock EXCEPT ![c] = IF sock[c] = "pending" THEN "open"
                                          ELSE "peer_closed"]
           /\ backlog' = Tail(backlog)
           /\ sent' = sent \o SentOnAccept(c)
           /\ log' = Append(log, Event("accept", c))
           /\ IF ListenKeepsWaiting(Socket(c))
              THEN /\ pc_lis' = "sleep"
                   /\ timers' = timers \cup {"lis"}
              ELSE UNCHANGED << pc_lis, timers >>
    /\ UNCHANGED << config, runVars, telVars, ready >>

\* ------------------------------------------------- gather() and the exit
\* mutant of AfterGatherRaises: run() connects again after a failure
AfterGatherReconnects == "CONNECTING"

\* where an exception raised out of gather() leaves run(): nothing
\* catches it, asyncio.run() ends
AfterGatherRaises == "STOPPED"

\* line 127: the done callback of the failed task wakes run() with the
\* task's exception; asyncio.run() cancels the other task and raises
GatherRaises ==
    /\ NextHandle("gather_cb")
    /\ state' = AfterGatherRaises
    /\ exit_error' = tel_exc
    /\ exit_code' = ExitFailure
    /\ pc_lis' = "cancelled"
    /\ ready' = <<>>
    /\ timers' = {}
    /\ log' = Append(log, Event("exit", 0))
    /\ UNCHANGED << config, pin_point, scan_time, launches, topics_log,
                    slotVars, telVars, netVars >>

\* ------------------------------------------------------------ the clients
\* a client connects to the listening socket (bound since __init__)
ClientConnect ==
    /\ listening
    /\ state # "STOPPED"
    /\ Len(backlog) < Backlog
    /\ \E c \in Clients :
         /\ sock[c] = "idle"
         /\ \A d \in Clients : d < c => sock[d] # "idle"
         /\ sock' = [sock EXCEPT ![c] = "pending"]
         /\ backlog' = Append(backlog, c)
    /\ UNCHANGED << config, runVars, slotVars, telVars, pc_lis, ready, timers,
                    sent, log >>

\* the peer of a connection closes it
PeerClose ==
    /\ state # "STOPPED"
    /\ \E c \in Clients :
         /\ sock[c] \in {"pending", "open"}
         /\ sock' = [sock EXCEPT ![c] = IF sock[c] = "open" THEN "peer_closed"
                                        ELSE "pending_closed"]
    /\ UNCHANGED << config, runVars, slotVars, telVars, pc_lis, ready, timers,
                    backlog, sent, log >>

Next ==
    \/ RunPinPointDaemon
    \/ RunConnect
    \/ GraceElapsed
    \/ RunScanInterval
    \/ TimerFire
    \/ TelemetryPoll
    \/ TelemetrySave
    \/ TelemetrySend
    \/ ListenResume
    \/ AcceptReturn
    \/ GatherRaises
    \/ ClientConnect
    \/ PeerClose

\* what the daemon does by itself (a client connecting or closing is the
\* environment's choice)
DaemonNext ==
    \/ RunPinPointDaemon
    \/ RunConnect
    \/ GraceElapsed
    \/ RunScanInterval
    \/ TimerFire
    \/ TelemetryPoll
    \/ TelemetrySave
    \/ TelemetrySend
    \/ ListenResume
    \/ AcceptReturn
    \/ GatherRaises

Spec == Init /\ [][Next]_vars

\* the event loop runs what is ready, and time passes
FairSpec == Spec /\ WF_vars(DaemonNext)

\* ================================================================ claims
\* gather() has been called: both loops were started
EverRunning == pc_tel # "none"

\* the connections accept() returned, and those of them not yet closed
Accepted == { c \in Clients : sock[c] \in {"open", "peer_closed", "closed"} }
OpenAccepted == { c \in Clients : sock[c] \in {"open", "peer_closed"} }

\* the slot holds an accepted connection whose peer has closed it
ClientGone == connection.kind = "socket" /\ sock[connection.id] = "peer_closed"

\* the calls of connect(), and how the first and the second ended
Connects == Logged("connect_ok") \cup Logged("connect_fail")
NumConnects == Cardinality(Connects)
FirstConnectFailed == Len(log) >= 1 /\ log[1].ev = "connect_fail"
RetryFailed == FirstConnectFailed /\ Len(log) >= 4 /\ log[4].ev = "connect_fail"
RetryOk == FirstConnectFailed /\ Len(log) >= 4 /\ log[4].ev = "connect_ok"

\* ---------------------------------------------------------------- C1
\* C1 (as claimed): every send telemetry_task attempts is to a connection
\* that accept() returned, and a cycle that runs while the slot holds no
\* accepted connection raises nothing of its own: only a failed driver
\* request can end the loop there.
C1_SendOnlyToAcceptedClient ==
    /\ \A i \in Logged("send") : log[i].id \in Accepted
    /\ (pc_tel = "failed" /\ connection.kind # "socket") => tel_exc = "dde.error"

\* ---------------------------------------------------------------- C2
\* C2 (as claimed): on a fair execution in which the daemon reaches
\* RUNNING and no driver request of telemetry_task fails, telemetry_task
\* reaches the end of a cycle (its sleep) infinitely often.
C2_CyclesForever ==
    ([](tel_exc # "dde.error") /\ <>(state = "RUNNING")) => []<>(pc_tel = "sleep")

\* ---------------------------------------------------------------- C3
\* C3 (as claimed): as long as no driver request fails, once the peer of
\* the current client has closed, the slot is eventually empty with
\* listen_task back in accept() and the daemon still RUNNING.
C3_SlotFreedAfterPeerClose ==
    [](tel_exc # "dde.error") =>
        (ClientGone ~> (connection = NoneValue /\ pc_lis = "accept" /\ state = "RUNNING"))

C5_AtMostOneClient ==
    /\ Cardinality(OpenAccepted) <= 1
    /\ \A c \in OpenAccepted : connection = Socket(c)
    /\ pc_lis = "accept" => connection.kind # "socket"

\* C5's case: a client is being served while a second one waits to be
\* accepted
C5_Witness ==
    /\ connection.kind = "socket"
    /\ sock[connection.id] = "open"
    /\ backlog # <<>>

\* ---------------------------------------------------------------- C6
\* what C6 says of the launch, the grace wait, the single retry and a
\* failed retry
C6_LaunchAndRetryOnce ==
    /\ NumConnects <= 2
    /\ launches <= 1
    /\ launches = Count("launch")
    /\ (FirstConnectFailed /\ ppmonitor_exe # "") =>
          /\ launches = 1
          /\ log[2].ev = "launch"
          /\ \/ state = "LAUNCHING" /\ Len(log) = 2
             \/ /\ log[3].ev = "grace"
                /\ \/ state = "RETRY_CONNECTING" /\ Len(log) = 3
                   \/ NumConnects = 2 /\ 4 \in Connects
    /\ RetryFailed =>
          /\ state = "STOPPED"
          /\ exit_error # "None"
          /\ ~EverRunning
          /\ Len(log) = 4

\* C6 (as claimed): the launch, the wait and the retry happen once, a
\* failed retry ends the daemon, and once the retry has succeeded the
\* daemon is on its way to RUNNING or has been RUNNING.
C6_RetrySuccessRuns ==
    /\ C6_LaunchAndRetryOnce
    /\ RetryOk => (state = "SCANNING" \/ EverRunning)

\* C6 (amended): as C6, but a retry that succeeded leads to RUNNING only
\* if the Average Scan Interval request that follows succeeds; if that
\* request fails the daemon is STOPPED without having been RUNNING.
C6_RetrySuccessRunsIfScanOk ==
    /\ C6_LaunchAndRetryOnce
    /\ RetryOk =>
          \/ state = "SCANNING"
          \/ EverRunning /\ log[5].ev = "scan_ok"
          \/ state = "STOPPED" /\ ~EverRunning /\ log[5].ev = "scan_fail"

\* C6's case: the first connect failed, the driver was launched and the
\* retry succeeded, and the daemon is RUNNING
C6_Witness == RetryOk /\ state = "RUNNING" /\ launches = 1

\* ---------------------------------------------------------------- C7
\* C7: when the first connect fails and no launcher path is configured,
\* the daemon is STOPPED with an error: nothing was launched, connect was
\* called once, and neither loop was started.
C7_NoLauncherIsFatal ==
    (FirstConnectFailed /\ ppmonitor_exe = "") =>
        /\ state = "STOPPED"
        /\ exit_error = "RuntimeError"
        /\ launches = 0
        /\ log = <<Event("connect_fail", 0)>>
        /\ pc_tel = "none"
        /\ pc_lis = "none"

\* C7's case: the first connect failed with no launcher path
C7_Witness == FirstConnectFailed /\ ppmonitor_exe = "" /\ state = "STOPPED"

\* ---------------------------------------------------------------- C8
\* C8: with a file sink, the file holds one line per sample produced, in
\* order (the sample of a cycle that has not reached the write yet apart),
\* whatever the slot holds and however the send of the cycle ends.
C8_OneLinePerSample ==
    save_file # "None" =>
        LET n == Len(samples) - (IF pc_tel = "save" THEN 1 ELSE 0)
        IN  file = [i \in 1..n |-> FileLine(samples[i])]

\* C8's case: a sample was produced and written, and the send of its
\* cycle failed
C8_Witness ==
    /\ save_file # "None"
    /\ Len(samples) = 1
    /\ Len(file) = 1
    /\ tel_exc = "AttributeError"

\* ---------------------------------------------------------------- C9
\* C9: once both loops were started, no step calls connect(), launches
\* the driver or takes run() back to connecting or launching.
C9_NoReconnect ==
    [][EverRunning =>
          /\ NumConnects' = NumConnects
          /\ launches' = launches
          /\ state' \in {"RUNNING", "STOPPED"}]_vars

\* C9's case: the daemon was RUNNING and then went on, to its exit
C9_Witness == EverRunning /\ state = "STOPPED" /\ Count("accept") = 1

\* --------------------------------------------------------------- C10
\* C10 (as claimed): after a driver request of telemetry_task has failed,
\* the daemon eventually is STOPPED.
C10_RequestFailureStops ==
    (tel_exc = "dde.error") ~> (state = "STOPPED")

\* ---------------------------------------------------------------- C11
\* the command line asks for discovery: --discover is given with a value
\* other than the empty string or False
DiscoveryRequested == arg_discover \notin {"absent", "", "False"}

\* C11 (as claimed): when the command line neither asks for discovery nor
\* gives a topic, the process never gets past the validation: once it has
\* run, the error is printed and the exit status is 1, and no socket
\* listens, no connect was attempted, nothing was launched and no
\* attribute of a daemon object was ever set.
C11_NoTopicExitsBeforeConstruction ==
    (~DiscoveryRequested /\ arg_topic = "None") =>
        /\ state \in {"STARTING", "EXITED"}
        /\ state = "EXITED" => (exit_code = 1 /\ stdout # <<>>)
        /\ ~listening
        /\ NumConnects = 0
        /\ launches = 0
        /\ connection = Unset
        /\ pin_point = NoSession
        /\ backlog = <<>>

\* ---------------------------------------------------------------- C12
\* C12: for every response in which each reading is followed by a tab
\* (closed or not by a newline), the sample telemetry_task parsed is the
\* list of the driver's readings: all of them, in their order, and
\* nothing else.
C12_ParseKeepsReadings ==
    /\ Len(samples) = Len(replies)
    /\ \A i \in 1..Len(replies) :
          replies[i].form \in {"tabs", "tabs_newline"} =>
              samples[i] = replies[i].fields

\* C12's case: a response of MaxFields readings, each followed by a tab,
\* has been parsed
C12_Witness ==
    /\ Len(samples) = 1
    /\ replies[1].form = "tabs"
    /\ Len(replies[1].fields) = MaxFields
    /\ replies[1].fields[1] # replies[1].fields[MaxFields]

\* ---------------------------------------------------------------- C13
\* C13 (as claimed), on the command lines that give a topic and do not
\* ask for discovery: no Topics request is ever made, and a connected
\* Session is connected to the topic given.
C13_ConfiguredTopicUsed ==
    (~DiscoveryRequested /\ arg_topic # "None") =>
        /\ topics_log = <<>>
        /\ pin_point.connected => pin_point.topic = <<arg_topic>>

\* ---------------------------------------------------------------- C14
\* the cycle (the number of its Temperatures request) the i-th logged
\* step belongs to
CycleOf(i) == Cardinality({ j \in Logged("poll") : j < i })

\* C14: with a file sink, when a cycle comes to its send the file already
\* ends with the line of that cycle's sample; every send attempted was
\* preceded by the append of its own cycle, and every line delivered to a
\* client is the wire form of a sample whose line is in the file.
C14_AppendBeforeSend ==
    save_file # "None" =>
        /\ pc_tel = "send" =>
              /\ Len(file) = Len(samples)
              /\ file[Len(file)] = FileLine(temperatures)
        /\ \A i \in Logged("send") :
              \E j \in Logged("append") : j < i /\ log[j].id = CycleOf(i)
        /\ \A k \in 1..Len(sent) :
              \E n \in 1..Len(file) :
                  /\ file[n] = FileLine(samples[n])
                  /\ sent[k].line = WireLine(samples[n])

\* C14's case: a cycle with a file sink found the slot not None, wrote
\* its line and attempted its send
C14_Witness ==
    /\ save_file # "None"
    /\ Logged("send") # {}
    /\ Len(file) = 1

\* ---------------------------------------------------------------- C15
\* where in the log the request of the n-th sample is
PollIndex(n) ==
    CHOOSE i \in Logged("poll") :
        Cardinality({ j \in Logged("poll") : j <= i }) = n

\* every line delivered went to an accepted connection and is the wire
\* form of one sample, the samples delivered are in poll order without
\* repetition, and the sample of a delivered line was requested after its
\* receiver had been accepted
DeliveriesInOrder ==
    /\ \A k \in 1..Len(sent) :
          /\ sent[k].to \in Accepted
          /\ sent[k].sample \in 1..Len(samples)
          /\ sent[k].line = WireLine(samples[sent[k].sample])
          /\ \E a \in Logged("accept") :
                log[a].id = sent[k].to /\ a < PollIndex(sent[k].sample)
    /\ \A k, l \in 1..Len(sent) : k < l => sent[k].sample < sent[l].sample

\* the only step that writes to a client is the send of a telemetry
\* cycle, and it writes the cycle's sample to the connection in the slot
OnlyTelemetryWrites ==
    sent' # sent =>
        /\ pc_tel = "send"
        /\ connection.kind = "socket"
        /\ sent' = Append(sent, [to |-> connection.id,
                                 sample |-> Len(samples),
                                 line |-> WireLine(samples[Len(samples)])])

\* C15: accept() and every other step of listen_task write nothing to a
\* client; what a client is sent is written by the send of a telemetry
\* cycle that started after the client was accepted, to the connection in
\* the slot at that moment, each sample at most once and in poll order.
C15_NothingSentOnAccept ==
    []DeliveriesInOrder /\ [][OnlyTelemetryWrites]_vars

\* C15's case: a sample was produced while no client was connected, a
\* client was accepted afterwards, and it has been sent nothing
C15_Witness ==
    /\ Len(samples) = 1
    /\ Count("accept") = 1
    /\ \A a \in Logged("accept") : PollIndex(1) < a
    /\ sent = <<>>

\* ---------------------------------------------------------------- C16
\* a step of listen_task that returns from accept() with the connection
\* at the head of the listener's queue and puts it in the slot
SlotSetByAccept ==
    /\ pc_lis = "accept"
    /\ backlog # <<>>
    /\ connection' = Socket(Head(backlog))
    /\ Count("accept")' = Count("accept") + 1

\* a send of telemetry_task to the client in the slot that delivers
\* nothing and leaves the slot empty
SlotClearedByFailedSend ==
    /\ pc_tel = "send"
    /\ connection.kind = "socket"
    /\ connection' = NoneValue
    /\ sent' = sent
    /\ Count("send")' = Count("send") + 1

\* C16: once the daemon is constructed, a step changes the slot only if
\* it is accept() returning in listen_task, which puts the new connection
\* in it, or a failed send of telemetry_task to the client in it, which
\* empties it; every other step leaves the slot as it is.
C16_SlotWriters ==
    [][(connection # Unset /\ connection' # connection) =>
           (SlotSetByAccept \/ SlotClearedByFailedSend)]_vars

\* C16's case: accept() has put a connection in the slot, and the steps
\* up to the end of the daemon have left it there
C16_Witness ==
    /\ connection.kind = "socket"
    /\ state = "STOPPED"
    /\ Len(samples) = 1

\* ---------------------------------------------------------------- C17
\* the Average Scan Interval requests made, answered or failed
ScanReads == Logged("scan_ok") \cup Logged("scan_fail")

\* C17: the scan interval is requested at most once, and exactly once as
\* soon as run() has gone past a successful connect; the request comes
\* right after that connect and before every Temperatures request and
\* every accept; from then on scan_time is the value that request gave,
\* and a sleep of telemetry_task is given that value.
C17_ScanIntervalReadOnce ==
    /\ Cardinality(ScanReads) <= 1
    /\ (Count("connect_ok") = 1 /\ state # "SCANNING") =>
          Cardinality(ScanReads) = 1
    /\ \A i \in ScanReads :
          /\ i > 1
          /\ log[i - 1].ev = "connect_ok"
          /\ \A j \in Logged("poll") \cup Logged("poll_fail") \cup Logged("accept") :
                i < j
    /\ (polls > 0 \/ Count("accept") > 0) => Count("scan_ok") = 1
    /\ \A i \in Logged("scan_ok") : scan_time = log[i].id
    /\ Count("scan_ok") = 0 => scan_time = NoScanTime
    /\ pc_tel = "sleep" => tel_sleep = scan_time

\* C17's case: the retry succeeded, the interval read was 2, and a
\* Temperatures request and an accept have followed
C17_Witness ==
    /\ RetryOk
    /\ scan_time = 2
    /\ Count("scan_ok") = 1
    /\ Count("poll") = 1
    /\ Count("accept") = 1

\* ---------------------------------------------------------------- C18
\* C18: an accepted connection that the slot does not refer to is closed,
\* and a step after which the slot no longer refers to an accepted
\* connection leaves that connection closed.
C18_NoConnectionAbandoned ==
    /\ [](\A c \in Accepted : connection # Socket(c) => sock[c] = "closed")
    /\ [][\A c \in Clients :
             (connection = Socket(c) /\ connection' # Socket(c)) =>
                 sock'[c] = "closed"]_vars

\* C18's case: the slot refers to an accepted connection, not closed by
\* the daemon, while the next client waits to be accepted
C18_Witness ==
    /\ Count("accept") = 1
    /\ connection.kind = "socket"
    /\ sock[connection.id] \in {"open", "peer_closed"}
    /\ \E c \in Clients : sock[c] = "pending"
    /\ pc_lis = "sleep"

\* ---------------------------------------------------------------- C19
\* the steps of the two loops in the log: accepts and Temperatures
\* requests
LoopSteps == Logged("accept") \cup Logged("poll") \cup Logged("poll_fail")

\* C19: a connect is attempted only with the listener bound; an accept or
\* a Temperatures request happens only after gather() was reached, with
\* the Session connected and the scan interval read, and follows the
\* successful connect and the read in the log; an execution that ended
\* before gather() has accepted no connection and produced no sample.
C19_ListenBeforeConnectServeAfterRunning ==
    /\ NumConnects > 0 => listening
    /\ LoopSteps # {} =>
          /\ EverRunning
          /\ pin_point.connected
          /\ scan_time # NoScanTime
          /\ \E i \in Logged("connect_ok"), j \in Logged("scan_ok") :
                i < j /\ \A k \in LoopSteps : j < k
    /\ ~EverRunning =>
          /\ LoopSteps = {}
          /\ samples = <<>>
          /\ connection.kind # "socket"
          /\ \A c \in Clients : sock[c] \in {"idle", "pending", "pending_closed"}

\* C19's case: a client connected to the listener during a startup that
\* ended in a fatal error, and was never accepted
C19_Witness ==
    /\ state = "STOPPED"
    /\ ~EverRunning
    /\ NumConnects = 2
    /\ backlog # <<>>
====
